---- MODULE Spec2Model ----
(***************************************************************************)
(* Model of markdown/extensions/fenced_code.py: the option grammar parser  *)
(* (_parse_options), the fence scanner (FENCED_BLOCK_RE), the fallback     *)
(* renderer (_escape, CODE_WRAP) and the substitution driver               *)
(* (FencedBlockPreprocessor.run).                                          *)
(*                                                                         *)
(* Text is a sequence of one-character strings; a line is a newline-free   *)
(* text; a document is a sequence of lines.                                *)
(***************************************************************************)
EXTENDS Integers, Sequences, FiniteSets, TLC

VARIABLES
    pc,                      \* position of the call in progress
    lines,                   \* argument of the current run
    text,                    \* run's local buffer
    out,                     \* value returned by the last run
    stash,                   \* markdown.htmlStash: fragments stored, in order
    blocks,                  \* history: one record per loop iteration of the run
    checked_for_codehilite,  \* FencedBlockPreprocessor field
    codehilite_conf,         \* FencedBlockPreprocessor field
    registeredExtensions,    \* markdown.registeredExtensions
    runs,                    \* number of run invocations entered so far
    scans,                   \* number of scans of registeredExtensions performed
    origin,                  \* history: input line number of each buffer line
    arg,                     \* argument of the pure function under check
    string,                  \* __do_parse: the remaining string
    emitted,                 \* __do_parse: the pairs yielded so far
    result                   \* value returned by the pure function

vars == << pc, lines, text, out, stash, blocks, checked_for_codehilite,
           codehilite_conf, registeredExtensions, runs, scans, origin,
           arg, string, emitted, result >>

----------------------------------------------------------------------------
(* Bounds *)

MaxLines == 4      \* lines of an input document drawn line by line
MaxChunks == 4     \* chunks of an input document drawn chunk by chunk
MaxShort == 3      \* lines of a document of the termination specification
MaxItems == 3      \* pieces of an attribute string
MaxChars == 4      \* characters of a text handed to _escape
MaxRuns == 3       \* run invocations on one instance (lifecycle specification)
MaxExts == 2       \* registered extensions (lifecycle specification)

----------------------------------------------------------------------------
(* Characters *)

NL == "\n"
DQ == "\""
SQ == "'"
BT == "BACKTICK"   \* the backtick character, which a TLA+ string cannot hold
STX == "STX"       \* u0002, opens a placeholder of the HTML stash
ETX == "ETX"       \* u0003, closes it

LowerSeq ==
    << "a","b","c","d","e","f","g","h","i","j","k","l","m",
       "n","o","p","q","r","s","t","u","v","w","x","y","z" >>

UpperSeq ==
    << "A","B","C","D","E","F","G","H","I","J","K","L","M",
       "N","O","P","Q","R","S","T","U","V","W","X","Y","Z" >>

Letters == { LowerSeq[i] : i \in 1 .. 26 } \cup { UpperSeq[i] : i \in 1 .. 26 }

Digits == { "0","1","2","3","4","5","6","7","8","9" }

\* character class of __LABEL_RE: letters, digits, underscore, plus, hyphen
LabelChars == Letters \cup Digits \cup { "_", "+", "-" }

\* character class of the options group: letters, digits, space, dot,
\* braces, equals sign, both quote characters, underscore, plus, hyphen
OptionChars == LabelChars \cup { " ", ".", "{", "}", "=", DQ, SQ }

FenceChars == { "~", BT }

----------------------------------------------------------------------------
(* Sequence helpers (Python slicing) *)

\* s[i:] with a 0-based offset i, i.e. the text from 1-based position i+1
From(s, p) == SubSeq(s, p, Len(s))

\* s[:i], the text before 1-based position p
Before(s, p) == SubSeq(s, 1, p - 1)

\* "\n".join(lines)
RECURSIVE Join(_)
Join(ls) ==
    IF Len(ls) = 0 THEN << >>
    ELSE IF Len(ls) = 1 THEN ls[1]
    ELSE ls[1] \o << NL >> \o Join(Tail(ls))

\* first position >= p holding character c, or Len(s)+1
RECURSIVE Index(_, _, _)
Index(s, c, p) ==
    IF p > Len(s) THEN Len(s) + 1
    ELSE IF s[p] = c THEN p
    ELSE Index(s, c, p + 1)

\* a split that drops a final empty piece, as str.splitlines does
RECURSIVE SplitLines(_)
SplitLines(s) ==
    LET e == Index(s, NL, 1)
    IN  IF Len(s) = 0 THEN << >>
        ELSE IF e > Len(s) THEN << s >>
        ELSE << Before(s, e) >> \o SplitLines(From(s, e + 1))

\* text.split("\n"): never the empty list
RECURSIVE Split(_)
Split(s) ==
    LET e == Index(s, NL, 1)
    IN  IF e > Len(s) THEN << s >>
        ELSE << Before(s, e) >> \o Split(From(s, e + 1))

\* txt.replace(old, new) for a one-character old
RECURSIVE Replace(_, _, _)
Replace(s, old, new) ==
    IF Len(s) = 0 THEN << >>
    ELSE (IF s[1] = old THEN new ELSE << s[1] >>) \o Replace(Tail(s), old, new)

\* length of the run of character c starting at position p
RECURSIVE RunLen(_, _, _)
RunLen(s, c, p) ==
    IF p > Len(s) \/ s[p] # c THEN 0 ELSE 1 + RunLen(s, c, p + 1)

----------------------------------------------------------------------------
(* Fence Scanner: FENCED_BLOCK_RE, re.MULTILINE | re.DOTALL | re.VERBOSE *)

\* ^ under MULTILINE
AtLineStart(s, p) == p = 1 \/ s[p - 1] = NL

\* $ under MULTILINE
AtLineEnd(s, p) == p = Len(s) + 1 \/ s[p] = NL

\* The fence group (a run of 3 or more tildes or of 3 or more backticks at
\* a line start): the length of the fence matched at p, 0 if none.  The run
\* is taken whole: the character after the group must be a space, an option
\* character or a newline, none of which is a fence character, so
\* backtracking to a shorter run never succeeds.
FenceLen(s, p) ==
    IF p <= Len(s) /\ AtLineStart(s, p) /\ s[p] \in FenceChars
       /\ RunLen(s, s[p], p) >= 3
    THEN RunLen(s, s[p], p) ELSE 0

\* a closing line without the end-of-line anchor: a longer run closes too
CloseEndUnanchored(s, p, fence) ==
    LET n == Len(fence)
        q == p + n + RunLen(s, " ", p + n)
    IN  IF p > 1 /\ s[p - 1] = NL /\ p + n - 1 <= Len(s)
           /\ SubSeq(s, p, p + n - 1) = fence
        THEN Index(s, NL, q) ELSE 0

\* The closing line (look-behind for a newline, back-reference to the
\* fence, spaces, end of line): position after the match, 0 if none
CloseEnd(s, p, fence) ==
    LET n == Len(fence)
        q == p + n + RunLen(s, " ", p + n)
    IN  IF p > 1 /\ s[p - 1] = NL /\ p + n - 1 <= Len(s)
           /\ SubSeq(s, p, p + n - 1) = fence /\ AtLineEnd(s, q)
        THEN q ELSE 0

\* The non-greedy code group: the first position >= p where the closing
\* line matches, 0 if there is none
RECURSIVE FindClose(_, _, _)
FindClose(s, p, fence) ==
    IF p > Len(s) THEN 0
    ELSE IF CloseEnd(s, p, fence) # 0 THEN p
    ELSE FindClose(s, p + 1, fence)

NoMatch == [ ok |-> FALSE, start |-> 0, end |-> 0,
             fence |-> << >>, options |-> << >>, code |-> << >> ]

\* the match of the whole pattern anchored at position p
MatchAt(s, p) ==
    LET n     == FenceLen(s, p)
        optS  == p + n + RunLen(s, " ", p + n)      \* after the spaces
        eol   == Index(s, NL, optS)                 \* newline after options
        fence == SubSeq(s, p, p + n - 1)
        close == FindClose(s, eol + 1, fence)
    IN  IF n = 0 \/ eol > Len(s) THEN NoMatch
        ELSE IF \E k \in optS .. eol - 1 : s[k] \notin OptionChars THEN NoMatch
        ELSE IF close = 0 THEN NoMatch
        ELSE [ ok |-> TRUE, start |-> p, end |-> CloseEnd(s, close, fence),
               fence |-> fence,
               options |-> SubSeq(s, optS, eol - 1),
               code |-> SubSeq(s, eol + 1, close - 1) ]

RECURSIVE SearchFrom(_, _)
SearchFrom(s, p) ==
    IF p > Len(s) THEN NoMatch
    ELSE IF MatchAt(s, p).ok THEN MatchAt(s, p)
    ELSE SearchFrom(s, p + 1)

RECURSIVE SearchBack(_, _)
SearchBack(s, p) ==
    IF p < 1 THEN NoMatch
    ELSE IF MatchAt(s, p).ok THEN MatchAt(s, p)
    ELSE SearchBack(s, p - 1)

\* a search that returns the rightmost match
SearchRightmost(s) == SearchBack(s, Len(s))

\* FENCED_BLOCK_RE.search(text): the leftmost match
Search(s) == SearchFrom(s, 1)

----------------------------------------------------------------------------
(* Option values.  A parsed value is either a raw string or the result of  *)
(* parseBoolValue; both are carried in one record shape.                   *)

Str(v) == [ t |-> "str", s |-> v, b |-> FALSE ]
Bool(v) == [ t |-> "bool", s |-> << >>, b |-> v ]
None == [ t |-> "none", s |-> << >>, b |-> FALSE ]

Lower(c) ==
    IF \E i \in 1 .. 26 : UpperSeq[i] = c
    THEN LowerSeq[CHOOSE i \in 1 .. 26 : UpperSeq[i] = c] ELSE c

\* markdown.util.parseBoolValue: true, false, or unset for any other text
parseBoolValue(v) ==
    LET low == [ i \in 1 .. Len(v) |-> Lower(v[i]) ]
    IN  IF low \in { <<"t","r","u","e">>, <<"y","e","s">>, <<"o","n">>, <<"1">> }
        THEN Bool(TRUE)
        ELSE IF low \in { <<"f","a","l","s","e">>, <<"n","o">>, <<"o","f","f">>,
                          <<"0">> }
        THEN Bool(FALSE)
        ELSE None

identity(v) == Str(v)

K_lang == << "l","a","n","g" >>
K_hl_lines == << "h","l","_","l","i","n","e","s" >>
K_linenums == << "l","i","n","e","n","u","m","s" >>
K_guess_lang == << "g","u","e","s","s","_","l","a","n","g" >>
K_css_class == << "c","s","s","_","c","l","a","s","s" >>
K_pygments_style == << "p","y","g","m","e","n","t","s","_","s","t","y","l","e" >>
K_noclasses == << "n","o","c","l","a","s","s","e","s" >>

\* __OPTION_PARSERS.get(label, __identity)(value)
OptionParse(label, value) ==
    IF label \in { K_linenums, K_guess_lang, K_noclasses }
    THEN parseBoolValue(value)
    ELSE identity(value)

----------------------------------------------------------------------------
(* Option Grammar Parser *)

WhiteSpace == { " ", "\t", NL, "\r" }

RECURSIVE lstrip(_)
lstrip(s) ==
    IF Len(s) > 0 /\ s[1] \in WhiteSpace THEN lstrip(Tail(s)) ELSE s

RECURSIVE rstrip(_)
rstrip(s) ==
    IF Len(s) > 0 /\ s[Len(s)] \in WhiteSpace
    THEN rstrip(SubSeq(s, 1, Len(s) - 1)) ELSE s

strip(s) == lstrip(rstrip(s))

truncate_brackets(s) ==
    IF Len(s) >= 2 /\ s[1] = "{" /\ s[Len(s)] = "}"
    THEN SubSeq(s, 2, Len(s) - 1) ELSE s

truncate_dot(s) ==
    IF Len(s) >= 1 /\ s[1] = "." THEN Tail(s) ELSE s

\* first position >= p holding a label character, or Len(s)+1
RECURSIVE LabelStart(_, _)
LabelStart(s, p) ==
    IF p > Len(s) THEN Len(s) + 1
    ELSE IF s[p] \in LabelChars THEN p
    ELSE LabelStart(s, p + 1)

\* first position >= p not holding a label character, or Len(s)+1
RECURSIVE LabelEnd(_, _)
LabelEnd(s, p) ==
    IF p > Len(s) THEN Len(s) + 1
    ELSE IF s[p] \notin LabelChars THEN p
    ELSE LabelEnd(s, p + 1)

\* __LABEL_RE.search(string) finds a label
HasLabel(s) == LabelStart(s, 1) <= Len(s)

\* a pass that skips the opening quote only and leaves the value unread
DoParseStepKeepsValue(s) ==
    LET b     == LabelStart(s, 1)
        e     == LabelEnd(s, b)
        label == SubSeq(s, b, e - 1)
        s1    == lstrip(From(s, e))
    IN  IF Len(s1) > 1 /\ s1[1] = "=" /\ (s1[2] = DQ \/ s1[2] = SQ)
        THEN LET quote == s1[2]
                 s2    == From(s1, 3)
                 eoq   == Index(s2, quote, 1)
             IN  IF eoq <= Len(s2)
                 THEN [ string |-> s2,
                        yield  |-> << << label, OptionParse(label, Before(s2, eoq)) >> >> ]
                 ELSE [ string |-> s2, yield |-> << >> ]
        ELSE [ string |-> s1, yield |-> << << K_lang, Str(label) >> >> ]

\* One pass of the while loop of __do_parse on a string that holds a label:
\* the string left for the next pass and the pairs yielded (none or one).
DoParseStep(s) ==
    LET b     == LabelStart(s, 1)
        e     == LabelEnd(s, b)
        label == SubSeq(s, b, e - 1)
        s1    == lstrip(From(s, e))
    IN  IF Len(s1) > 1 /\ s1[1] = "=" /\ (s1[2] = DQ \/ s1[2] = SQ)
        THEN LET quote == s1[2]
                 s2    == From(s1, 3)
                 eoq   == Index(s2, quote, 1)
             IN  IF eoq <= Len(s2)
                 THEN [ string |-> From(s2, eoq + 1),
                        yield  |-> << << label, OptionParse(label, Before(s2, eoq)) >> >> ]
                 ELSE [ string |-> s2, yield |-> << >> ]
        ELSE [ string |-> s1, yield |-> << << K_lang, Str(label) >> >> ]

\* the pairs __do_parse(string) yields, in order
RECURSIVE do_parse(_)
do_parse(s) ==
    IF ~HasLabel(s) THEN << >>
    ELSE DoParseStep(s).yield \o do_parse(DoParseStep(s).string)

EmptyDict == [ k \in {} |-> None ]

\* dict(pairs): a later pair overwrites an earlier one with the same key
RECURSIVE Dict(_)
Dict(pairs) ==
    IF Len(pairs) = 0 THEN EmptyDict
    ELSE LET n == Len(pairs)
         IN  (pairs[n][1] :> pairs[n][2]) @@ Dict(SubSeq(pairs, 1, n - 1))

\* the preprocessing of _parse_options
Preprocess(s) == truncate_dot(truncate_brackets(strip(s)))

parse_options(s) == Dict(do_parse(Preprocess(s)))

----------------------------------------------------------------------------
(* Block Renderer *)

AMP == << "&","a","m","p",";" >>
LT == << "&","l","t",";" >>
GT == << "&","g","t",";" >>
QUOT == << "&","q","u","o","t",";" >>

\* the four replacements with the ampersand replaced last
escapeAmpLast(t) ==
    Replace(Replace(Replace(Replace(t, "<", LT), ">", GT), DQ, QUOT), "&", AMP)

\* FencedBlockPreprocessor._escape: four replacements, one after the other
escape(t) ==
    Replace(Replace(Replace(Replace(t, "&", AMP), "<", LT), ">", GT), DQ, QUOT)

\* LANG_TAG % x
LANG_TAG(x) == << " ","c","l","a","s","s","=", DQ >> \o x \o << DQ >>

\* CODE_WRAP % (lang, body)
CODE_WRAP(lang, body) ==
    << "<","p","r","e",">","<","c","o","d","e" >> \o lang \o << ">" >> \o body
    \o << "<","/","c","o","d","e",">","<","/","p","r","e",">" >>

\* opts.get(name), None when absent
Get(opts, name) == IF name \in DOMAIN opts THEN opts[name] ELSE None

\* the options of a match: the empty dict for an empty capture
OptsOf(options) == IF Len(options) > 0 THEN parse_options(options) ELSE EmptyDict

\* the lang tag of a match: set only under a non-empty capture, then
\* LANG_TAG % opts.get('lang', '')
LangOf(options) ==
    IF Len(options) > 0
    THEN LANG_TAG(IF K_lang \in DOMAIN OptsOf(options)
                  THEN OptsOf(options)[K_lang].s ELSE << >>)
    ELSE << >>

\* FencedBlockPreprocessor._option
option(conf, name, inlineOptions) ==
    IF name \in DOMAIN inlineOptions THEN inlineOptions[name] ELSE conf[name]

EmptyConf == [ k \in {} |-> None ]

NoCall == [ k \in {} |-> None ]

\* The fragment of the no-highlighter branch
Fallback(options, code) ==
    [ hilited |-> FALSE, html |-> CODE_WRAP(LangOf(options), escape(code)),
      call |-> NoCall ]

\* The fragment of the highlighter branch: the CodeHilite call, by its
\* arguments
Hilite(conf, options, code) ==
    LET opts == OptsOf(options)
    IN  [ hilited |-> TRUE, html |-> << >>,
          call |-> [ src |-> Str(code),
                     linenums |-> option(conf, K_linenums, opts),
                     guess_lang |-> option(conf, K_guess_lang, opts),
                     css_class |-> option(conf, K_css_class, opts),
                     style |-> option(conf, K_pygments_style, opts),
                     lang |-> Get(opts, K_lang),
                     noclasses |-> option(conf, K_noclasses, opts),
                     hl_lines |-> Get(opts, K_hl_lines) ] ]

\* the fragment run stores for a match under configuration conf
Render(conf, options, code) ==
    IF DOMAIN conf # {} THEN Hilite(conf, options, code)
    ELSE Fallback(options, code)

----------------------------------------------------------------------------
(* HTML stash and registered extensions *)

DigitSeq == << "0","1","2","3","4","5","6","7","8","9" >>

\* the placeholder htmlStash.store returns for its i-th fragment (from 0)
Placeholder(i) == << STX, DigitSeq[i + 1], ETX >>

ConfA ==
    (K_linenums :> None) @@ (K_guess_lang :> Bool(TRUE))
    @@ (K_css_class :> Str(<< "c","h" >>)) @@ (K_pygments_style :> Str(<< "d" >>))
    @@ (K_noclasses :> Bool(FALSE))

ConfB ==
    (K_linenums :> Bool(TRUE)) @@ (K_guess_lang :> Bool(FALSE))
    @@ (K_css_class :> Str(<< "h","l" >>)) @@ (K_pygments_style :> Str(<< "e" >>))
    @@ (K_noclasses :> Bool(TRUE))

OtherExt == [ class |-> "Extension", config |-> EmptyConf ]
HiliteExtA == [ class |-> "CodeHiliteExtension", config |-> ConfA ]
HiliteExtB == [ class |-> "CodeHiliteExtension", config |-> ConfB ]

Extensions == { OtherExt, HiliteExtA, HiliteExtB }

\* the for loop over markdown.registeredExtensions: the configuration of
\* the first CodeHiliteExtension, or the current one when there is none
RECURSIVE FindCodeHilite(_, _)
FindCodeHilite(exts, conf) ==
    IF Len(exts) = 0 THEN conf
    ELSE IF exts[1].class = "CodeHiliteExtension" THEN exts[1].config
    ELSE FindCodeHilite(Tail(exts), conf)

----------------------------------------------------------------------------
(* Substitution Driver: FencedBlockPreprocessor.run *)

\* number of newlines before position p: the 0-based line number of p
RECURSIVE LineNo(_, _)
LineNo(s, p) ==
    IF p <= 1 THEN 0
    ELSE (IF s[p - 1] = NL THEN 1 ELSE 0) + LineNo(s, p - 1)

\* a splice that starts the rest one character late
SpliceSkipsOne(s, m, placeholder) ==
    Before(s, m.start) \o << NL >> \o placeholder \o << NL >> \o From(s, m.end + 1)

\* a splice that leaves the closing fence in the buffer
SpliceKeepsClosingFence(s, m, placeholder) ==
    Before(s, m.start) \o << NL >> \o placeholder \o << NL >> \o m.fence
    \o From(s, m.end)

\* the buffer after the splice of one match
Splice(s, m, placeholder) ==
    Before(s, m.start) \o << NL >> \o placeholder \o << NL >> \o From(s, m.end)

\* the whole while loop as a function: buffer and stash at loop exit
RECURSIVE Loop(_, _, _)
Loop(s, st, conf) ==
    LET m == Search(s)
    IN  IF m.ok
        THEN Loop(Splice(s, m, Placeholder(Len(st))),
                  Append(st, Render(conf, m.options, m.code)), conf)
        ELSE [ text |-> s, stash |-> st ]

\* the lines run returns for ls, with st stored before and conf cached
RunOut(ls, st, conf) == Split(Loop(Join(ls), st, conf).text)

----------------------------------------------------------------------------
(* Inputs *)

BT3 == << BT, BT, BT >>
BT4 == << BT, BT, BT, BT >>
TL3 == << "~", "~", "~" >>
BT3sp == << BT, BT, BT, " " >>                 \* fence and a trailing space
BT3py == << BT, BT, BT, "p", "y" >>            \* fence and a language
TL3dot == << "~", "~", "~", " ", "." >>        \* fence and options without a label
BT3bad == << BT, BT, BT, "#" >>                \* fence and a character no option holds
TXT == << "<", "&" >>                          \* ordinary text
EMPTY == << >>                                 \* an empty line

LineSet == { BT3, BT4, TL3, BT3sp, BT3py, TL3dot, BT3bad, TXT, EMPTY }

SeqsUpTo(S, n) == UNION { [ 1 .. k -> S ] : k \in 0 .. n }

\* Longer documents are drawn as runs of chunks: ordinary text, whole
\* blocks, and a stray fence.
ChunkSet ==
    { << TXT >>,
      << BT3py, TXT, BT3 >>,
      << TL3dot, BT3, TL3 >>,
      << BT4, BT3, BT4 >>,
      << BT3 >> }

RECURSIVE Flatten(_)
Flatten(cs) == IF Len(cs) = 0 THEN << >> ELSE cs[1] \o Flatten(Tail(cs))

Docs ==
    SeqsUpTo(LineSet, MaxLines)
    \cup { Flatten(cs) : cs \in SeqsUpTo(ChunkSet, MaxChunks) }

LifeDocs == { << >>, << TXT >>, << BT3py, TXT, BT3 >> }

----------------------------------------------------------------------------
(* State after construction *)

PureIdle ==
    /\ arg = << >>
    /\ string = << >>
    /\ emitted = << >>
    /\ result = << >>

\* FencedBlockPreprocessor.__init__ on a Markdown instance with an empty stash
Constructed ==
    /\ pc = "idle"
    /\ lines = << >>
    /\ text = << >>
    /\ out = << >>
    /\ stash = << >>
    /\ blocks = << >>
    /\ origin = << >>
    /\ checked_for_codehilite = FALSE
    /\ codehilite_conf = EmptyConf
    /\ runs = 0
    /\ scans = 0

Init ==
    /\ Constructed
    /\ registeredExtensions \in { << >>, << OtherExt, HiliteExtA >> }
    /\ PureIdle

pureVars == << arg, string, emitted, result >>

----------------------------------------------------------------------------
(* run, from its entry to the first scan: the one-time discovery and join *)

NeedsScanAlways(checked) == TRUE

\* the guard of the discovery: not self.checked_for_codehilite
NeedsScan(checked) == ~checked

RunEnter(D, maxRuns) ==
    /\ pc = "idle"
    /\ runs < maxRuns
    /\ \E ls \in D :
        /\ lines' = ls
        /\ text' = Join(ls)
        /\ origin' = IF Len(ls) = 0 THEN << 0 >> ELSE [ i \in 1 .. Len(ls) |-> i ]
    /\ IF NeedsScan(checked_for_codehilite)
       THEN /\ codehilite_conf' = FindCodeHilite(registeredExtensions, codehilite_conf)
            /\ scans' = scans + 1
       ELSE UNCHANGED << codehilite_conf, scans >>
    /\ checked_for_codehilite' = TRUE
    /\ blocks' = << >>
    /\ runs' = runs + 1
    /\ pc' = "loop"
    /\ UNCHANGED << out, stash, registeredExtensions, pureVars >>

\* one pass of the while loop with a match: render, store, splice
LoopIteration ==
    /\ pc = "loop"
    /\ \E m \in { Search(text) } :
        /\ m.ok
        /\ \E ph \in { Placeholder(Len(stash)) },
              a \in { LineNo(text, m.start) + 1 },
              b \in { LineNo(text, m.end) + 1 } :
            /\ stash' = Append(stash, Render(codehilite_conf, m.options, m.code))
            /\ text' = Splice(text, m, ph)
            /\ blocks' = Append(blocks,
                  [ start |-> m.start, fence |-> m.fence, options |-> m.options,
                    code |-> m.code, placeholder |-> ph, slot |-> Len(stash) + 1,
                    first |-> origin[a], last |-> origin[b] ])
            /\ origin' = SubSeq(origin, 1, a - 1) \o << 0, 0, 0 >>
                         \o SubSeq(origin, b + 1, Len(origin))
    /\ UNCHANGED << pc, lines, out, checked_for_codehilite, codehilite_conf,
                    registeredExtensions, runs, scans, pureVars >>

\* the pass without a match: leave the loop, split and return
RunReturn ==
    /\ pc = "loop"
    /\ ~Search(text).ok
    /\ out' = Split(text)
    /\ pc' = "idle"
    /\ UNCHANGED << lines, text, stash, blocks, origin, checked_for_codehilite,
                    codehilite_conf, registeredExtensions, runs, scans, pureVars >>

\* The first run of a fresh instance, on any document
Next ==
    \/ RunEnter(Docs, 1)
    \/ LoopIteration
    \/ RunReturn

Spec == Init /\ [][Next]_vars

\* The same run as a sequential program that takes every step it can take
TermDocs ==
    SeqsUpTo(LineSet, MaxShort)
    \cup { Flatten(cs) : cs \in SeqsUpTo(ChunkSet, MaxChunks) }

NextTerm ==
    \/ RunEnter(TermDocs, 1)
    \/ LoopIteration
    \/ RunReturn

\* run is sequential code: inside the loop it always takes its next step.
\* This is weak fairness of LoopIteration \/ RunReturn, written with the
\* enabling condition of that step, pc = "loop", spelled out.
LoopStep == LoopIteration \/ RunReturn

FairSpec ==
    Init /\ [][NextTerm]_vars
         /\ ([]<>(pc # "loop") \/ []<><<LoopStep>>_vars)

Returned == pc = "idle" /\ runs > 0

----------------------------------------------------------------------------
(* Several runs of one instance, with extensions registered and removed   *)
(* between the runs                                                        *)

RegisterExtension ==
    /\ pc = "idle"
    /\ Len(registeredExtensions) < MaxExts
    /\ \E e \in Extensions : registeredExtensions' = Append(registeredExtensions, e)
    /\ UNCHANGED << pc, lines, text, out, stash, blocks, origin,
                    checked_for_codehilite, codehilite_conf, runs, scans, pureVars >>

RemoveExtension ==
    /\ pc = "idle"
    /\ Len(registeredExtensions) > 0
    /\ registeredExtensions' = Tail(registeredExtensions)
    /\ UNCHANGED << pc, lines, text, out, stash, blocks, origin,
                    checked_for_codehilite, codehilite_conf, runs, scans, pureVars >>

InitLife ==
    /\ Constructed
    /\ registeredExtensions = << >>
    /\ PureIdle

NextLife ==
    \/ RunEnter(LifeDocs, MaxRuns)
    \/ LoopIteration
    \/ RunReturn
    \/ RegisterExtension
    \/ RemoveExtension

SpecLife == InitLife /\ [][NextLife]_vars

----------------------------------------------------------------------------
(* _parse_options as a computation on attribute strings built from pieces *)

PY == << "p","y" >>
RB == << "r","b" >>
FOO == << "f","o","o" >>
UNTERMINATED == << "u","n","t","e","r","m","i","n","a","t","e","d" >>

BareItem(l) == [ kind |-> "bare", key |-> l, val |-> << >>, q |-> DQ ]
PairItem(k, v, q) == [ kind |-> "pair", key |-> k, val |-> v, q |-> q ]
OpenItem(k, v, q) == [ kind |-> "open", key |-> k, val |-> v, q |-> q ]

ItemSet ==
    { BareItem(PY), BareItem(RB),
      PairItem(K_lang, RB, DQ),
      PairItem(K_linenums, << "T","r","u","e" >>, DQ),
      PairItem(K_linenums, << "n","o" >>, SQ),
      PairItem(K_hl_lines, << "1"," ","3" >>, DQ),
      PairItem(<< "k" >>, << "a","=",DQ,"b" >>, SQ),
      OpenItem(FOO, UNTERMINATED, DQ),
      OpenItem(<< "k" >>, << >>, SQ) }

WrapSet == { "plain", "dot", "brace", "bracedot", "padded" }

ItemText(it) ==
    IF it.kind = "bare" THEN it.key
    ELSE IF it.kind = "pair" THEN it.key \o << "=", it.q >> \o it.val \o << it.q >>
    ELSE it.key \o << "=", it.q >> \o it.val

RECURSIVE ItemsText(_)
ItemsText(its) ==
    IF Len(its) = 0 THEN << >>
    ELSE IF Len(its) = 1 THEN ItemText(its[1])
    ELSE ItemText(its[1]) \o << " " >> \o ItemsText(Tail(its))

AttrString(a) ==
    LET body == ItemsText(a.items)
    IN  CASE a.wrap = "plain" -> body
          [] a.wrap = "dot" -> << "." >> \o body
          [] a.wrap = "brace" -> << "{" >> \o body \o << "}" >>
          [] a.wrap = "bracedot" -> << "{", "." >> \o body \o << "}" >>
          [] a.wrap = "padded" -> << " " >> \o body \o << " " >>

InitOpt ==
    /\ Constructed
    /\ registeredExtensions = << >>
    /\ pc = "idle"
    /\ arg \in [ items : SeqsUpTo(ItemSet, MaxItems), wrap : WrapSet ]
    /\ string = << >>
    /\ emitted = << >>
    /\ result = << >>

driverVars == << lines, text, out, stash, blocks, origin, checked_for_codehilite,
                 codehilite_conf, registeredExtensions, runs, scans >>

\* _parse_options up to the call of __do_parse
ParseEnter ==
    /\ pc = "idle"
    /\ string' = Preprocess(AttrString(arg))
    /\ emitted' = << >>
    /\ pc' = "do_parse"
    /\ UNCHANGED << arg, result, driverVars >>

\* one pass of the loop of __do_parse that finds a label
ParsePass ==
    /\ pc = "do_parse"
    /\ HasLabel(string)
    /\ string' = DoParseStep(string).string
    /\ emitted' = emitted \o DoParseStep(string).yield
    /\ UNCHANGED << pc, arg, result, driverVars >>

\* the pass that finds no label: the generator ends and the dict is built
ParseReturn ==
    /\ pc = "do_parse"
    /\ ~HasLabel(string)
    /\ result' = Dict(emitted)
    /\ pc' = "parsed"
    /\ UNCHANGED << arg, string, emitted, driverVars >>

NextOpt ==
    \/ ParseEnter
    \/ ParsePass
    \/ ParseReturn

SpecOpt == InitOpt /\ [][NextOpt]_vars

----------------------------------------------------------------------------
(* The no-highlighter branch of run as a computation on one match *)

EscChars == { "&", "<", ">", DQ, "a", ";" }

SCRIPT ==
    << "<","s","c","r","i","p","t",">","&",DQ,"<","/","s","c","r","i","p","t",">" >>

InitRender ==
    /\ Constructed
    /\ registeredExtensions = << >>
    /\ arg \in [ options : { << >>, PY, << "." >> },
                 code : SeqsUpTo(EscChars, MaxChars) \cup { SCRIPT } ]
    /\ string = << >>
    /\ emitted = << >>
    /\ result = << >>

RenderFallback ==
    /\ pc = "idle"
    /\ result' = Fallback(arg.options, arg.code)
    /\ pc' = "rendered"
    /\ UNCHANGED << arg, string, emitted, driverVars >>

NextRender == RenderFallback

SpecRender == InitRender /\ [][NextRender]_vars

----------------------------------------------------------------------------
(* Documents read line by line: the vocabulary of the properties below    *)

\* length of the run of one fence character that opens line l
FenceRun(l) == IF Len(l) > 0 /\ l[1] \in FenceChars THEN RunLen(l, l[1], 1) ELSE 0

IsFenceLine(l) == FenceRun(l) >= 3

\* a fence of 3 or more, then nothing but option characters
IsOpener(l) ==
    /\ IsFenceLine(l)
    /\ \A k \in FenceRun(l) + 1 .. Len(l) : l[k] \in OptionChars

\* exactly n of character c, then nothing but spaces
IsCloser(l, c, n) ==
    /\ Len(l) >= n
    /\ \A k \in 1 .. n : l[k] = c
    /\ \A k \in n + 1 .. Len(l) : l[k] = " "

\* line j closes the block line i opens
Closes(ls, i, j) ==
    /\ i < j
    /\ IsOpener(ls[i])
    /\ IsCloser(ls[j], ls[i][1], FenceRun(ls[i]))

\* line j is the first line that closes the block line i opens
FirstClose(ls, i, j) ==
    /\ Closes(ls, i, j)
    /\ \A k \in i + 1 .. j - 1 : ~Closes(ls, i, k)

HasBlock(ls) == \E i, j \in 1 .. Len(ls) : Closes(ls, i, j)

\* each line followed by a newline
RECURSIVE BodyText(_)
BodyText(ls) ==
    IF Len(ls) = 0 THEN << >> ELSE ls[1] \o << NL >> \o BodyText(Tail(ls))

\* the options of an opening line: what follows the fence and its spaces
OpenerOptions(l) ==
    LET p == FenceRun(l) + 1 + RunLen(l, " ", FenceRun(l) + 1)
    IN  SubSeq(l, p, Len(l))

\* The blocks of a document in document order: the first line from i on
\* that opens a block closed later, its first closing line, and so on
\* after that closing line.
RECURSIVE BlocksFrom(_, _)
BlocksFrom(ls, i) ==
    IF i > Len(ls) THEN << >>
    ELSE IF \E j \in i + 1 .. Len(ls) : Closes(ls, i, j)
    THEN LET j == CHOOSE j \in i + 1 .. Len(ls) : FirstClose(ls, i, j)
         IN  << [ first |-> i, last |-> j ] >> \o BlocksFrom(ls, j + 1)
    ELSE BlocksFrom(ls, i + 1)

\* The document with every block of bs (numbered from n) replaced by the
\* three lines pad, placeholder, pad
RECURSIVE Replaced(_, _, _, _, _)
Replaced(ls, bs, from, n, pad) ==
    IF Len(bs) = 0 THEN SubSeq(ls, from, Len(ls))
    ELSE SubSeq(ls, from, bs[1].first - 1) \o pad \o << Placeholder(n) >> \o pad
         \o Replaced(ls, Tail(bs), bs[1].last + 1, n + 1, pad)

\* lines = P ++ B ++ S with B = lines i..j one well-formed block and no
\* fence line in P or S
SingleBlock(ls, i, j) ==
    /\ FirstClose(ls, i, j)
    /\ ls[j] = SubSeq(ls[i], 1, FenceRun(ls[i]))
    /\ \A k \in (1 .. i - 1) \cup (j + 1 .. Len(ls)) : ~IsFenceLine(ls[k])

----------------------------------------------------------------------------
(* Properties of the substitution driver (specification Spec)             *)

\* C1 as stated: for lines = P ++ B ++ S with one well-formed block B and
\* no fence line in P or S, run stores once and returns exactly
\* P ++ [placeholder] ++ S.
C1_ExactlyPlaceholder ==
    Returned =>
        \A i, j \in 1 .. Len(lines) :
            SingleBlock(lines, i, j) =>
                /\ Len(stash) = 1
                /\ out = SubSeq(lines, 1, i - 1) \o << Placeholder(0) >>
                         \o SubSeq(lines, j + 1, Len(lines))

\* C1 amended: for such lines run stores once and returns
\* P ++ ["", placeholder, ""] ++ S: the span of B is replaced by the
\* placeholder line set between two empty lines, and every line of P and S
\* is returned unchanged and in place.
C1_PlaceholderBetweenBlankLines ==
    Returned =>
        \A i, j \in 1 .. Len(lines) :
            SingleBlock(lines, i, j) =>
                /\ Len(stash) = 1
                /\ out = SubSeq(lines, 1, i - 1)
                         \o << EMPTY, Placeholder(0), EMPTY >>
                         \o SubSeq(lines, j + 1, Len(lines))

C1_Witness ==
    /\ Returned
    /\ \E i, j \in 2 .. Len(lines) - 1 : SingleBlock(lines, i, j) /\ j > i + 1

\* C2 as stated: on any input without a complete fenced block, zero lines
\* included, run stores nothing and returns its input line for line.
C2_ReturnsInput ==
    (Returned /\ ~HasBlock(lines)) => (Len(stash) = 0 /\ out = lines)

\* C2 amended: on an input of one or more lines without a complete fenced
\* block run stores nothing and returns its input line for line; on zero
\* lines it stores nothing and returns one empty line; and for every input
\* x, run(run(x)) = run(x).
C2_ReturnsInputUnlessEmpty ==
    Returned =>
        /\ ~HasBlock(lines) =>
              /\ Len(stash) = 0
              /\ Len(lines) > 0 => out = lines
              /\ Len(lines) = 0 => out = << EMPTY >>
        /\ RunOut(out, stash, codehilite_conf) = out

C2_Witness ==
    /\ Returned
    /\ ~HasBlock(lines)
    /\ Len(lines) >= 3
    /\ \E k \in 1 .. Len(lines) : IsOpener(lines[k])
    /\ \E k \in 1 .. Len(lines) : lines[k] = EMPTY

\* C3: a block opened by a fence of exactly N characters c is closed by the
\* first later line made of exactly N characters c and optional spaces;
\* every line between the two (shorter runs, longer runs, runs of the
\* other character) is body content, kept literally in the code capture.
\* An opening line with no such later line never starts a block, and on
\* return it is in the output unchanged unless it is the body content or
\* the closing line of a block opened before it.
C3_FenceLengthDiscipline ==
    /\ \A x \in 1 .. Len(blocks) :
          LET b == blocks[x]
          IN  /\ b.first >= 1 /\ b.last <= Len(lines)
              /\ FirstClose(lines, b.first, b.last)
              /\ b.fence = SubSeq(lines[b.first], 1, FenceRun(lines[b.first]))
              /\ b.code = BodyText(SubSeq(lines, b.first + 1, b.last - 1))
    /\ \A i \in 1 .. Len(lines) :
          (IsOpener(lines[i]) /\ ~\E j \in 1 .. Len(lines) : Closes(lines, i, j)) =>
              /\ \A x \in 1 .. Len(blocks) : blocks[x].first # i
              /\ Returned =>
                    \/ \E x \in 1 .. Len(blocks) :
                          blocks[x].first < i /\ i <= blocks[x].last
                    \/ \E p \in 1 .. Len(out) : origin[p] = i /\ out[p] = lines[i]

\* a four-backtick block whose body holds a three-backtick line, and an
\* opening line left without its closing line
C3_Witness ==
    /\ Returned
    /\ \E x \in 1 .. Len(blocks) :
          /\ Len(blocks[x].fence) = 4
          /\ \E k \in blocks[x].first + 1 .. blocks[x].last - 1 : lines[k] = BT3
    /\ \E i \in 1 .. Len(lines) :
          /\ lines[i] = TL3
          /\ \E p \in 1 .. Len(out) : origin[p] = i

\* C4: for an input with k >= 2 blocks run stores k fragments, the i-th
\* rendered from the i-th block in document order; the placeholders stand
\* in the output in that order, each in the place of its block between the
\* lines that surrounded it; and every match begins after the placeholder
\* spliced by the pass before.
C4_BlocksInDocumentOrder ==
    /\ \A x \in 1 .. Len(blocks) - 1 :
          blocks[x + 1].start > blocks[x].start + Len(blocks[x].placeholder)
    /\ Returned =>
          LET bs == BlocksFrom(lines, 1)
          IN  Len(bs) >= 2 =>
                /\ Len(stash) = Len(bs)
                /\ \A x \in 1 .. Len(bs) :
                      stash[x] = Render(codehilite_conf,
                                        OpenerOptions(lines[bs[x].first]),
                                        BodyText(SubSeq(lines, bs[x].first + 1,
                                                        bs[x].last - 1)))
                /\ out = Replaced(lines, bs, 1, 0, << EMPTY >>)

C4_Witness ==
    /\ Returned
    /\ Len(BlocksFrom(lines, 1)) >= 2
    /\ Len(stash) >= 2
    /\ stash[1] # stash[2]
    /\ \E p \in 1 .. Len(out) : out[p] = TXT

Prefix(h, p) == Len(h) >= Len(p) /\ SubSeq(h, 1, Len(p)) = p

PRE_CODE == << "<","p","r","e",">","<","c","o","d","e" >>

\* C5: with no highlighter, the fragment of every block opens with
\* <pre><code class="L"> when its options hold a lang L, and with
\* <pre><code> and no class attribute when they hold none, whatever the
\* options capture.
C5_ClassOnlyWithLang ==
    \A x \in 1 .. Len(blocks) :
        DOMAIN codehilite_conf = {} =>
            LET opts == parse_options(blocks[x].options)
                html == stash[blocks[x].slot].html
            IN  IF K_lang \in DOMAIN opts
                THEN Prefix(html, PRE_CODE
                        \o << " ","c","l","a","s","s","=", DQ >>
                        \o opts[K_lang].s \o << DQ, ">" >>)
                ELSE Prefix(html, PRE_CODE \o << ">" >>)

----------------------------------------------------------------------------
(* Termination of the loop (specification FairSpec)                       *)

FenceLineCount(ls) == Cardinality({ k \in 1 .. Len(ls) : IsFenceLine(ls[k]) })

\* C10: the loop of run reaches a scan without a match and run returns;
\* every pass with a match leaves fewer fence lines in the buffer; the
\* passes, and the fragments stored, number at most half the fence lines
\* of the input; and the returned lines hold no complete fenced block.
C10_LoopTerminates ==
    /\ (pc = "loop") ~> Returned
    /\ [][(pc = "loop" /\ pc' = "loop") =>
             FenceLineCount(Split(text')) < FenceLineCount(Split(text))]_vars
    /\ [](/\ Len(stash) = Len(blocks)
          /\ 2 * Len(blocks) <= FenceLineCount(lines))
    /\ [](Returned => ~HasBlock(out))

C10_Witness ==
    /\ Returned
    /\ Len(blocks) = 2
    /\ FenceLineCount(lines) >= 5
    /\ FenceLineCount(out) >= 1

----------------------------------------------------------------------------
(* One-time discovery (specification SpecLife)                            *)

\* C9: the scan of registeredExtensions happens in the first run only;
\* from then on checked_for_codehilite stays true and codehilite_conf is
\* not written, so every fragment of a later run is rendered with the
\* configuration the first run cached, whatever is registered by then.
C9_OneTimeDiscovery ==
    /\ [][checked_for_codehilite =>
             /\ checked_for_codehilite'
             /\ codehilite_conf' = codehilite_conf
             /\ scans' = scans]_vars
    /\ [](IF runs = 0 THEN ~checked_for_codehilite /\ scans = 0
                      ELSE checked_for_codehilite /\ scans = 1)
    /\ [](\A x \in 1 .. Len(blocks) :
             stash[blocks[x].slot].hilited = (DOMAIN codehilite_conf # {}))

\* a second run has rendered without the highlighter although a
\* CodeHiliteExtension is registered by then
C9_Witness ==
    /\ Returned
    /\ runs >= 2
    /\ Len(blocks) > 0
    /\ DOMAIN codehilite_conf = {}
    /\ ~stash[Len(stash)].hilited
    /\ \E k \in 1 .. Len(registeredExtensions) :
          registeredExtensions[k].class = "CodeHiliteExtension"

----------------------------------------------------------------------------
(* Properties of the option grammar parser (specification SpecOpt)        *)

WellFormed(its) == \A k \in 1 .. Len(its) : its[k].kind \in { "bare", "pair" }

Last(S) == CHOOSE k \in S : \A j \in S : j <= k

\* the value a quoted pair is expected to give its key
ExpectedValue(key, val) ==
    IF key \in { K_linenums, K_guess_lang, K_noclasses }
    THEN parseBoolValue(val) ELSE Str(val)

\* the entry one well-formed piece is expected to emit
ExpectedPair(it) ==
    IF it.kind = "bare" THEN << K_lang, Str(it.key) >>
    ELSE << it.key, ExpectedValue(it.key, it.val) >>

\* C6: a label followed by = and an opening quote that is never closed
\* contributes no entry under any key, and the entries of the well-formed
\* pieces before it are returned: the result is the fold of those pieces
\* alone (the empty mapping for foo="unterminated).
C6_UnterminatedContributesNothing ==
    LET its == arg.items
        n   == Len(its)
    IN  (/\ pc = "parsed"
         /\ n >= 1
         /\ its[n].kind = "open"
         /\ WellFormed(SubSeq(its, 1, n - 1)))
        => result = Dict([ k \in 1 .. n - 1 |-> ExpectedPair(its[k]) ])

\* C7 as stated: for a string of bare labels and properly quoted pairs,
\* lang is the last bare label, and each key of a pair maps to its last
\* quoted value, boolean-parsed for linenums, guess_lang and noclasses and
\* raw for every other key.
C7_LangIsLastBareLabel ==
    LET its   == arg.items
        bares == { k \in 1 .. Len(its) : its[k].kind = "bare" }
        keys  == { its[k].key : k \in { j \in 1 .. Len(its) : its[j].kind = "pair" } }
    IN  (pc = "parsed" /\ WellFormed(its)) =>
        /\ DOMAIN result = (IF bares # {} THEN { K_lang } ELSE {}) \cup keys
        /\ bares # {} => result[K_lang] = Str(its[Last(bares)].key)
        /\ \A key \in keys :
              LET at == Last({ k \in 1 .. Len(its) :
                                  its[k].kind = "pair" /\ its[k].key = key })
              IN  result[key] = ExpectedValue(key, its[at].val)

\* C7 amended: for such a string the result is the fold of the pieces in
\* scan order, where a bare label and a pair with the key lang write the
\* same entry: lang is the label or the quoted value of whichever of them
\* is scanned last; every other key maps to its last quoted value,
\* boolean-parsed for linenums, guess_lang and noclasses and raw otherwise;
\* text inside a quoted value is never read as a label.
C7_FoldInScanOrder ==
    LET its   == arg.items
        langs == { k \in 1 .. Len(its) :
                      its[k].kind = "bare" \/ its[k].key = K_lang }
        keys  == { its[k].key : k \in { j \in 1 .. Len(its) : its[j].kind = "pair" } }
    IN  (pc = "parsed" /\ WellFormed(its)) =>
        /\ DOMAIN result = (IF langs # {} THEN { K_lang } ELSE {}) \cup keys
        /\ langs # {} =>
              result[K_lang] = Str(IF its[Last(langs)].kind = "bare"
                                   THEN its[Last(langs)].key
                                   ELSE its[Last(langs)].val)
        /\ \A key \in keys \ { K_lang } :
              LET at == Last({ k \in 1 .. Len(its) :
                                  its[k].kind = "pair" /\ its[k].key = key })
              IN  result[key] = ExpectedValue(key, its[at].val)
        /\ (arg.wrap = "bracedot"
            /\ its = << BareItem(PY), PairItem(K_hl_lines, << "1"," ","3" >>, DQ) >>)
           => result = (K_lang :> Str(PY)) @@ (K_hl_lines :> Str(<< "1"," ","3" >>))
        /\ (arg.wrap = "plain"
            /\ its = << BareItem(PY), PairItem(K_linenums, << "T","r","u","e" >>, DQ) >>)
           => result = (K_lang :> Str(PY)) @@ (K_linenums :> Bool(TRUE))

\* a braced, dotted string of a label, a boolean pair and a pair whose
\* value holds label text
C7_Witness ==
    /\ pc = "parsed"
    /\ arg.wrap = "bracedot"
    /\ WellFormed(arg.items)
    /\ \E i, j, k \in 1 .. Len(arg.items) :
          /\ arg.items[i].kind = "bare"
          /\ arg.items[j].key = K_linenums
          /\ arg.items[k].key = << "k" >>
    /\ Cardinality(DOMAIN result) = 3

----------------------------------------------------------------------------
(* Properties of the fallback renderer (specification SpecRender)         *)

EscOne(c) ==
    IF c = "&" THEN AMP
    ELSE IF c = "<" THEN LT
    ELSE IF c = ">" THEN GT
    ELSE IF c = DQ THEN QUOT
    ELSE << c >>

\* every character replaced on its own, once, in order
RECURSIVE EscMap(_)
EscMap(t) == IF Len(t) = 0 THEN << >> ELSE EscOne(t[1]) \o EscMap(Tail(t))

CLOSE_TAGS == << "<","/","c","o","d","e",">","<","/","p","r","e",">" >>

\* C8: with no highlighter the fragment is <pre><code...>, the code
\* capture with each of the four characters replaced by its entity in one
\* pass per source character, and </code></pre>; the body holds no raw
\* angle bracket or double quote.
C8_FallbackEscaping ==
    pc = "rendered" =>
        LET html == result.html
            body == EscMap(arg.code)
            tail == << ">" >> \o body \o CLOSE_TAGS
            cut  == Len(html) - Len(tail)
        IN  /\ ~result.hilited
            /\ cut >= Len(PRE_CODE)
            /\ Prefix(html, PRE_CODE)
            /\ SubSeq(html, cut + 1, Len(html)) = tail
            /\ \A k \in Len(PRE_CODE) + 1 .. cut : html[k] \notin { "<", ">" }
            /\ \A k \in 1 .. Len(body) : body[k] \notin { "<", ">", DQ }
            /\ arg.code = SCRIPT =>
                  body = << "&","l","t",";","s","c","r","i","p","t","&","g","t",";",
                            "&","a","m","p",";","&","q","u","o","t",";",
                            "&","l","t",";","/","s","c","r","i","p","t","&","g","t",";" >>

C8_Witness ==
    /\ pc = "rendered"
    /\ arg.code = SCRIPT
    /\ arg.options = PY

====
